---- MODULE Spec2Model ----
(***************************************************************************)
(* Model of OpenCUIT/etz: a news aggregator.                               *)
(*   src/server.js          the aggregator with per-source error report    *)
(*   src/backend/server.js  the aggregator behind the NEWS_CACHE slot      *)
(*   src/public/main.js     the page: NewsApp                              *)
(* Times are milliseconds since the epoch, calendar dates are day numbers  *)
(* (the 'YYYY-MM-DD' string of a day), local time zone without DST.        *)
(***************************************************************************)
EXTENDS Integers, Sequences, FiniteSets, TLC

\* ---------------------------------------------------------------- bounds
NumSources == 2        \* sources in the configuration file
MaxElems == 2          \* elements matched by itemSelector in one document
MaxDays == 2           \* largest days window
MaxJitter == 1         \* milliseconds past the last instant before expiry
MaxRetries == 5        \* largest retries argument of fetchWithTimeout
MaxClientPages == 2    \* pages one source can fill in the page's list

\* ---------------------------------------------------------------- constants
MsPerDay == 86400000
MsPerSecond == 1000
DefaultDays == 3
DefaultIntervalMinutes == 30
MaxQueryDays == 90
ItemsPerPage == 10
RefreshRetries == 3
BackoffBase == 1000
BackoffCap == 5000
\* the process starts at noon of some day
StartClock == 4 * MsPerDay + 12 * 3600000
StartDay == StartClock \div MsPerDay

\* ---------------------------------------------------------------- values
\* an absent value (undefined, null) and a present one
Undefined == [defined |-> FALSE]
Null == [defined |-> FALSE]
Def(v) == [defined |-> TRUE, value |-> v]

Titles == <<"A", "B", "C", "D">>
Registry == [i \in 1..NumSources |-> Titles[i]]

\* dayjs(...).format('YYYY-MM-DD'): the calendar day of an instant
Format(ms) == ms \div MsPerDay
\* dayjs('YYYY-MM-DD').valueOf(): midnight of a calendar day
ValueOf(date) == date * MsPerDay
\* dayjs().startOf('day')
StartOfDay(ms) == (ms \div MsPerDay) * MsPerDay
\* dayjs().format('YYYY-MM-DD HH:mm:ss'): an instant to the second
FormatSeconds(ms) == ms \div MsPerSecond

\* ---------------------------------------------------------------- documents
ItemDays == {StartDay - 1, StartDay}
Elements == [kind : {"ok"}, day : ItemDays]
SeqsUpTo(S, n) == UNION {[1..k -> S] : k \in 0..n}
Docs == SeqsUpTo(Elements, MaxElems)
\* the elements a page can hold: well-formed ones, and ones without a date
\* element, with a date dayjs finds invalid, without a title element,
\* without a link element, or with a link new URL() throws on
MalformedKinds == {"noDate", "badDate", "noTitle", "noHref", "throws"}
AnyElements == Elements \cup [kind : MalformedKinds, day : {StartDay}]
AnyDocs == SeqsUpTo(AnyElements, MaxElems)
NetError == [net |-> "error", status |-> 0, doc |-> <<>>]
Responses ==
    {NetError} \cup [net : {"ok"}, status : {204, 404}, doc : {<<>>}]
               \cup [net : {"ok"}, status : {200}, doc : Docs]
NoResponse == [net |-> "none", status |-> 0, doc |-> <<>>]
\* what a GET can deliver to one fetchContent call
AnyResponses == {NetError} \cup [net : {"ok"}, status : {200, 206, 404}, doc : AnyDocs]

\* the .each() callback of fetchContent: one element, one item or none
ExtractElement(title, doc, k) ==
    LET element == doc[k] IN
    IF element.kind = "noDate" THEN <<>>
    ELSE IF element.kind = "badDate" THEN <<>>
    ELSE IF element.kind \in {"noTitle", "noHref"} THEN <<>>
    ELSE IF element.kind = "throws" THEN <<>>
    ELSE <<[source |-> title, title |-> k, url |-> k,
            date |-> Format(ValueOf(element.day))]>>

\* mutant: the first element without an item ends the loop
RECURSIVE ExtractFrom_stopsAtMalformed(_, _, _)
ExtractFrom_stopsAtMalformed(title, doc, k) ==
    IF k > Len(doc) THEN <<>>
    ELSE IF ExtractElement(title, doc, k) = <<>> THEN <<>>
    ELSE ExtractElement(title, doc, k) \o ExtractFrom_stopsAtMalformed(title, doc, k + 1)

\* $(itemSelector).each(...): the elements in document order
RECURSIVE ExtractFrom(_, _, _)
ExtractFrom(title, doc, k) ==
    IF k > Len(doc) THEN <<>>
    ELSE ExtractElement(title, doc, k) \o ExtractFrom(title, doc, k + 1)

Extract(title, doc) == ExtractFrom(title, doc, 1)

Return(items) == [threw |-> FALSE, value |-> items, error |-> 0]
Throw(status) == [threw |-> TRUE, value |-> <<>>, error |-> status]

\* mutant: every status axios accepts is parsed
fetchContent_below400(title, r) ==
    IF r.net = "error" THEN Throw(0)
    ELSE IF r.status >= 400 THEN Throw(r.status)
    ELSE Return(Extract(title, r.doc))

\* src/server.js fetchContent: validateStatus accepts status < 400, the body
\* is parsed only for status 200, everything else throws
fetchContent(title, r) ==
    IF r.net = "error" THEN Throw(0)
    ELSE IF r.status >= 400 THEN Throw(r.status)
    ELSE IF r.status = 200 THEN Return(Extract(title, r.doc))
    ELSE Throw(r.status)

\* src/backend/server.js fetchContent: axios rejects every status outside
\* 2xx, and every failure is swallowed into an empty list
backend_fetchContent(title, r) ==
    IF r.net = "error" THEN <<>>
    ELSE IF r.status < 200 \/ r.status >= 300 THEN <<>>
    ELSE IF r.status = 200 THEN Extract(title, r.doc)
    ELSE <<>>

\* ---------------------------------------------------------------- config
GoodFiles ==
    [readable : {TRUE}, parses : {TRUE}, days : 1..MaxDays,
     intervalMinutes : {DefaultIntervalMinutes},
     outputPath : {"news.json"}, isArray : {TRUE}, sources : {Registry}]
AGoodFile == CHOOSE file \in GoodFiles : file.days = 1
\* no file, a file that is not JSON, a file without days, a file whose
\* sources is not an array
BadFiles ==
    {[readable |-> FALSE, parses |-> FALSE, days |-> 0, intervalMinutes |-> 0,
      outputPath |-> "", isArray |-> FALSE, sources |-> <<>>],
     [AGoodFile EXCEPT !.parses = FALSE],
     [AGoodFile EXCEPT !.days = 0],
     [AGoodFile EXCEPT !.isArray = FALSE]}
ConfigFiles == GoodFiles \cup BadFiles
\* the backend also wants intervalMinutes and outputPath
backend_BadFiles ==
    BadFiles \cup {[AGoodFile EXCEPT !.intervalMinutes = 0],
                   [AGoodFile EXCEPT !.outputPath = ""]}
backend_ConfigFiles == GoodFiles \cup backend_BadFiles

DefaultConfig ==
    [days |-> DefaultDays, intervalMinutes |-> 0, outputPath |-> "", sources |-> <<>>]

\* mutant: only the missing field is replaced by its default
loadConfig_keepsSources(file) ==
    IF ~file.readable \/ ~file.parses THEN DefaultConfig
    ELSE [days |-> IF file.days = 0 THEN DefaultDays ELSE file.days,
          intervalMinutes |-> file.intervalMinutes,
          outputPath |-> file.outputPath, sources |-> file.sources]

\* src/server.js loadConfig
loadConfig(file) ==
    IF ~file.readable \/ ~file.parses THEN DefaultConfig
    ELSE IF file.days = 0 \/ ~file.isArray THEN DefaultConfig
    ELSE [days |-> file.days, intervalMinutes |-> file.intervalMinutes,
          outputPath |-> file.outputPath, sources |-> file.sources]

backend_DefaultConfig ==
    [days |-> DefaultDays, intervalMinutes |-> DefaultIntervalMinutes,
     outputPath |-> "news.json", sources |-> <<>>]

\* mutant: the backend asks for the fields of the documented shape only
backend_loadConfig_documentedFields(file) ==
    IF ~file.readable \/ ~file.parses THEN backend_DefaultConfig
    ELSE IF file.days = 0 \/ file.intervalMinutes = 0 \/ ~file.isArray
         THEN backend_DefaultConfig
    ELSE [days |-> file.days, intervalMinutes |-> file.intervalMinutes,
          outputPath |-> file.outputPath, sources |-> file.sources]

\* src/backend/server.js loadConfig
backend_loadConfig(file) ==
    IF ~file.readable \/ ~file.parses THEN backend_DefaultConfig
    ELSE IF file.days = 0 \/ file.intervalMinutes = 0 \/ file.outputPath = ""
            \/ ~file.isArray THEN backend_DefaultConfig
    ELSE [days |-> file.days, intervalMinutes |-> file.intervalMinutes,
          outputPath |-> file.outputPath, sources |-> file.sources]

\* ---------------------------------------------------------------- sorting
\* mutant: the comparator with its operands swapped (ascending order)
Compare_ascending(a, b) == ValueOf(a.date) - ValueOf(b.date)

\* the comparator of allItems.sort: negative when a goes first
Compare(a, b) == ValueOf(b.date) - ValueOf(a.date)

\* mutant: an unstable sort, x goes before the elements it ties with
RECURSIVE InsertSorted_unstable(_, _)
InsertSorted_unstable(x, s) ==
    IF s = <<>> THEN <<x>>
    ELSE IF Compare(Head(s), x) < 0
         THEN <<Head(s)>> \o InsertSorted_unstable(x, Tail(s))
    ELSE <<x>> \o s

\* Array.prototype.sort is stable: x goes after every element that does not
\* compare greater than it
RECURSIVE InsertSorted(_, _)
InsertSorted(x, s) ==
    IF s = <<>> THEN <<x>>
    ELSE IF Compare(Head(s), x) <= 0 THEN <<Head(s)>> \o InsertSorted(x, Tail(s))
    ELSE <<x>> \o s

RECURSIVE SortFrom(_, _)
SortFrom(s, acc) ==
    IF s = <<>> THEN acc ELSE SortFrom(Tail(s), InsertSorted(Head(s), acc))

Sort(s) == SortFrom(s, <<>>)

\* results.flat() over the Promise.all array, in Registry order
RECURSIVE FlatFrom(_, _)
FlatFrom(res, i) ==
    IF i > Len(res) THEN <<>> ELSE res[i] \o FlatFrom(res, i + 1)

Flat(res) == FlatFrom(res, 1)

\* dayjs().subtract(days, 'day').startOf('day')
CutoffDate(now, days) == StartOfDay(now - days * MsPerDay)

\* mutant: isAfter replaced by a test that admits the cutoff day itself
IsAfterCutoff_inclusive(item, cutoffDate) == ValueOf(item.date) >= cutoffDate

\* dayjs(item.date).isAfter(cutoffDate)
IsAfterCutoff(item, cutoffDate) == ValueOf(item.date) > cutoffDate

FilterItems(items, cutoffDate) ==
    SelectSeq(items, LAMBDA item : IsAfterCutoff(item, cutoffDate))

\* ---------------------------------------------------------------- state
VARIABLES
    app,          \* src/public/main.js: the fields of NewsApp and what it shows
    localStorage, \* src/public/main.js: the browser's localStorage
    fetcher,      \* src/public/main.js: the running fetchWithTimeout call
    configFile, \* the configuration file main() found
    extraction, \* the fetchContent call made on its own, and its outcome
    server,     \* which server.js is the running process
    clock,      \* Date.now()
    CONFIG,     \* the configuration loaded by main()
    pc,         \* src/server.js: position of the refresh request
    days,       \* argument of the running fetchAllData
    pending,    \* sources whose task has not settled
    response,   \* what each source's GET delivered in this run
    results,    \* the Promise.all slots
    errors,     \* the errors array of the running fetchAllData
    allItems,   \* the sorted list before the days filter
    data,       \* the result of the last finished fetchAllData
    res,        \* the last HTTP response of the refresh route
    NEWS_CACHE, \* src/backend/server.js: the cache slot
    call        \* src/backend/server.js: the fetchAllData calls in flight

aggVars == <<pc, days, pending, response, results, errors, allItems, data, res>>
cacheVars == <<NEWS_CACHE, call>>
clientVars == <<app, localStorage, fetcher>>
vars == <<clientVars, configFile, extraction, server, clock, CONFIG, aggVars, cacheVars>>

Sources == 1..Len(CONFIG.sources)
NoData == [updateTime |-> 0, total |-> 0, allItems |-> <<>>,
           errors |-> Undefined, partialSuccess |-> Undefined]
NoRes == [status |-> 0, body |-> NoData]

Instants ==
    {StartClock} \cup
    {StartClock + DefaultIntervalMinutes * 60 * 1000 - 1 + j : j \in 0..MaxJitter}

\* the requests the backend is serving: the slots set up by Init
Requests == DOMAIN call
backend_NoRes == [status |-> 0, body |-> Null]
\* the days parameter of a query string: absent, or a text that parseInt
\* reads as a number (digits) or not, with or without something after the
\* number
NoDaysParam == [present |-> FALSE, digits |-> FALSE, n |-> 0, rest |-> FALSE]
IdleCall == [pc |-> "idle", route |-> "none", query |-> NoDaysParam, category |-> "",
             forceRefresh |-> FALSE, days |-> 0, now |-> 0,
             responses |-> <<>>, ret |-> Null, res |-> backend_NoRes,
             usedCache |-> FALSE]

InitAgg ==
    /\ pc = "idle"
    /\ days = 0
    /\ pending = {}
    /\ response = <<>>
    /\ results = <<>>
    /\ errors = <<>>
    /\ allItems = <<>>
    /\ data = NoData
    /\ res = NoRes

InitCache ==
    /\ NEWS_CACHE = [data |-> Null, lastUpdate |-> Null]
    /\ call = [c \in {"r1"} |-> IdleCall]

NoExtraction == [source |-> "", page |-> NoResponse, outcome |-> Return(<<>>)]

\* no page is open
NoApp == [pc |-> "closed"]
EmptyStorage == [allNewsData |-> Null, lastUpdate |-> Null]
IdleFetcher ==
    [pc |-> "idle", caller |-> "", retries |-> 0, i |-> 0, lastError |-> Undefined,
     log |-> <<>>, waits |-> <<>>, response |-> Null]
NoClient ==
    /\ app = NoApp
    /\ localStorage = EmptyStorage
    /\ fetcher = IdleFetcher

Init ==
    /\ server = "src/server.js"
    /\ clock = StartClock
    /\ configFile \in ConfigFiles
    /\ CONFIG = loadConfig(configFile)
    /\ extraction = NoExtraction
    /\ NoClient
    /\ InitAgg
    /\ InitCache

\* time passes
Tick ==
    /\ \E t \in Instants : t > clock /\ clock' = t
    /\ UNCHANGED <<clientVars, configFile, extraction, server, CONFIG, aggVars, cacheVars>>

\* ------------------------------------------------ src/server.js, the aggregator
\* GET /api/news/refresh calls fetchAllData(): every source task is started
Refresh ==
    /\ server = "src/server.js"
    /\ pc = "idle"
    /\ pc' = "fetching"
    /\ days' = CONFIG.days
    /\ pending' = Sources
    /\ response' = [i \in Sources |-> NoResponse]
    /\ results' = [i \in Sources |-> <<>>]
    /\ errors' = <<>>
    /\ allItems' = <<>>
    /\ res' = NoRes
    /\ UNCHANGED <<clientVars, configFile, extraction, server, clock, CONFIG, data, cacheVars>>

\* mutant: the arrow without its catch, a failing source rejects Promise.all
SourceTask_nocatch(i, r, now) ==
    LET outcome == fetchContent(CONFIG.sources[i], r) IN
    [rejects |-> outcome.threw, value |-> outcome.value, pushed |-> <<>>]

\* mutant: a source that delivers no item is recorded as failed
SourceTask_emptyIsError(i, r, now) ==
    LET outcome == fetchContent(CONFIG.sources[i], r) IN
    IF outcome.threw \/ outcome.value = <<>>
    THEN [rejects |-> FALSE, value |-> <<>>,
          pushed |-> <<[source |-> CONFIG.sources[i], error |-> outcome.error,
                        timestamp |-> now]>>]
    ELSE [rejects |-> FALSE, value |-> outcome.value, pushed |-> <<>>]

\* the async arrow of fetchAllData for one source: the items, or [] and a
\* SourceError pushed when fetchContent throws; the arrow itself never rejects
SourceTask(i, r, now) ==
    LET outcome == fetchContent(CONFIG.sources[i], r) IN
    IF outcome.threw
    THEN [rejects |-> FALSE, value |-> <<>>,
          pushed |-> <<[source |-> CONFIG.sources[i], error |-> outcome.error,
                        timestamp |-> now]>>]
    ELSE [rejects |-> FALSE, value |-> outcome.value, pushed |-> <<>>]

\* one source task settles, in any order; a rejected task rejects Promise.all
Settle(i, r) ==
    /\ pc = "fetching"
    /\ i \in pending
    /\ LET task == SourceTask(i, r, clock) IN
        /\ results' = [results EXCEPT ![i] = task.value]
        /\ errors' = errors \o task.pushed
        /\ pc' = IF task.rejects THEN "failed" ELSE pc
    /\ response' = [response EXCEPT ![i] = r]
    /\ pending' = pending \ {i}
    /\ UNCHANGED <<clientVars, configFile, extraction, server, clock, CONFIG, days, allItems, data, res, cacheVars>>

\* mutant: errors is always the array, empty when nothing failed
BuildData_emptyErrors(sorted, errs, d, now) ==
    LET filteredItems == FilterItems(sorted, CutoffDate(now, d)) IN
    [updateTime |-> FormatSeconds(now),
     total |-> Len(filteredItems),
     allItems |-> filteredItems,
     errors |-> Def(errs),
     partialSuccess |-> Def(Len(errs) > 0 /\ Len(filteredItems) > 0)]

\* mutant: partialSuccess does not look at the number of items
BuildData_anyError(sorted, errs, d, now) ==
    LET filteredItems == FilterItems(sorted, CutoffDate(now, d)) IN
    [updateTime |-> FormatSeconds(now),
     total |-> Len(filteredItems),
     allItems |-> filteredItems,
     errors |-> IF Len(errs) > 0 THEN Def(errs) ELSE Undefined,
     partialSuccess |-> Def(Len(errs) > 0)]

\* the object built by fetchAllData once Promise.all has resolved
BuildData(sorted, errs, d, now) ==
    LET filteredItems == FilterItems(sorted, CutoffDate(now, d)) IN
    [updateTime |-> FormatSeconds(now),
     total |-> Len(filteredItems),
     allItems |-> filteredItems,
     errors |-> IF Len(errs) > 0 THEN Def(errs) ELSE Undefined,
     partialSuccess |-> Def(Len(errs) > 0 /\ Len(filteredItems) > 0)]

\* mutant: the result is built as soon as one task has settled
Join_race ==
    /\ pc = "fetching"
    /\ pending # Sources
    /\ allItems' = Sort(Flat(results))
    /\ data' = BuildData(allItems', errors, days, clock)
    /\ pc' = "done"
    /\ UNCHANGED <<clientVars, configFile, extraction, server, clock, CONFIG, days, pending, response,
                   results, errors, res, cacheVars>>

\* Promise.all resolves: merge, sort, filter, build
Join ==
    /\ pc = "fetching"
    /\ pending = {}
    /\ allItems' = Sort(Flat(results))
    /\ data' = BuildData(allItems', errors, days, clock)
    /\ pc' = "done"
    /\ UNCHANGED <<clientVars, configFile, extraction, server, clock, CONFIG, days, pending, response, results, errors, res,
                   cacheVars>>

\* mutant: a result without items whose sources all failed is answered as
\* an error
Respond_hardFailure ==
    /\ pc \in {"done", "failed"}
    /\ res' = IF pc = "done" /\ ~(data.errors.defined /\ data.total = 0)
              THEN [status |-> 200, body |-> data]
              ELSE [status |-> 500, body |-> NoData]
    /\ pc' = "idle"
    /\ days' = 0
    /\ pending' = {}
    /\ response' = <<>>
    /\ results' = <<>>
    /\ errors' = <<>>
    /\ allItems' = <<>>
    /\ data' = NoData
    /\ UNCHANGED <<clientVars, configFile, extraction, server, clock, CONFIG, cacheVars>>

\* the route answers: res.json(data), or status 500 when fetchAllData threw
Respond ==
    /\ pc \in {"done", "failed"}
    /\ res' = IF pc = "done" THEN [status |-> 200, body |-> data]
              ELSE [status |-> 500, body |-> NoData]
    /\ pc' = "idle"
    /\ days' = 0
    /\ pending' = {}
    /\ response' = <<>>
    /\ results' = <<>>
    /\ errors' = <<>>
    /\ allItems' = <<>>
    /\ data' = NoData
    /\ UNCHANGED <<clientVars, configFile, extraction, server, clock, CONFIG, cacheVars>>

\* ------------------------------------- src/backend/server.js, the cached aggregator
\* what a source answers to the cached aggregator: a failure, or a page with
\* one item dated today or yesterday
BackendResponses ==
    {NetError} \cup
    {[net |-> "ok", status |-> 200, doc |-> <<[kind |-> "ok", day |-> d]>>] :
        d \in ItemDays}

\* cacheAge and cacheTimeout of fetchAllData
CacheAge(cache, now) ==
    now - (IF cache.lastUpdate.defined THEN cache.lastUpdate.value ELSE 0)
CacheTimeout(config) == config.intervalMinutes * 60 * 1000

\* mutant: the cache is served only to the window it was built for by default
UseCache_defaultDaysOnly(forceRefresh, d, cache, now, config) ==
    /\ ~forceRefresh /\ cache.data.defined
    /\ CacheAge(cache, now) < CacheTimeout(config)
    /\ d = config.days

\* mutant: forceRefresh is not consulted
UseCache_ignoresForce(forceRefresh, d, cache, now, config) ==
    cache.data.defined /\ CacheAge(cache, now) < CacheTimeout(config)

\* mutant: an entry exactly as old as the timeout is still served
UseCache_inclusive(forceRefresh, d, cache, now, config) ==
    /\ ~forceRefresh /\ cache.data.defined
    /\ CacheAge(cache, now) <= CacheTimeout(config)

\* the test of line 163: serve the cached data
UseCache(forceRefresh, d, cache, now, config) ==
    ~forceRefresh /\ cache.data.defined /\ CacheAge(cache, now) < CacheTimeout(config)

\* fetchAllData(forceRefresh, days), called by a route, up to its first await
Enter(c, route, raw, forceRefresh, d) ==
    /\ server = "src/backend/server.js"
    /\ call[c].pc = "idle"
    /\ IF UseCache(forceRefresh, d, NEWS_CACHE, clock, CONFIG)
       THEN call' = [call EXCEPT ![c] =
                [IdleCall EXCEPT !.pc = "ret165", !.route = route, !.query = raw,
                                 !.forceRefresh = forceRefresh, !.days = d,
                                 !.ret = NEWS_CACHE.data]]
       ELSE call' = [call EXCEPT ![c] =
                [IdleCall EXCEPT !.pc = "await170", !.route = route, !.query = raw,
                                 !.forceRefresh = forceRefresh, !.days = d,
                                 !.now = clock]]
    /\ UNCHANGED <<clientVars, configFile, extraction, server, clock, CONFIG, aggVars, NEWS_CACHE>>

\* the days parameters requests come with: absent, the numbers around the
\* accepted range, "1.5" and a text without digits
DaysParams ==
    {NoDaysParam}
    \cup [present : {TRUE}, digits : {TRUE}, n : (-1..MaxDays) \cup {MaxQueryDays + 1},
          rest : {FALSE}]
    \cup {[present |-> TRUE, digits |-> TRUE, n |-> 1, rest |-> TRUE],
          [present |-> TRUE, digits |-> FALSE, n |-> 0, rest |-> TRUE]}

NaN == [nan |-> TRUE, n |-> 0]
\* parseInt(days)
ParseInt(raw) == IF raw.present /\ raw.digits THEN [nan |-> FALSE, n |-> raw.n] ELSE NaN
\* parseInt(days) || CONFIG.days: NaN and 0 are falsy
DaysNum(raw, config) ==
    LET parsed == ParseInt(raw) IN
    IF parsed.nan \/ parsed.n = 0 THEN [nan |-> FALSE, n |-> config.days] ELSE parsed
\* days && (isNaN(daysNum) || daysNum < 1 || daysNum > 90)
RejectsDays(raw, config) ==
    LET daysNum == DaysNum(raw, config) IN
    raw.present /\ (daysNum.nan \/ daysNum.n < 1 \/ daysNum.n > MaxQueryDays)

\* GET /api/news?days=raw up to the first await (and the initial fetch of
\* main(), which has no parameters): status 400, or fetchAllData(false, daysNum)
News(c, raw) ==
    IF RejectsDays(raw, CONFIG)
    THEN /\ server = "src/backend/server.js"
         /\ call[c].pc = "idle"
         /\ call' = [call EXCEPT ![c] =
                [IdleCall EXCEPT !.route = "news", !.query = raw,
                                 !.res = [status |-> 400, body |-> Null]]]
         /\ UNCHANGED <<clientVars, configFile, extraction, server, clock, CONFIG, aggVars, NEWS_CACHE>>
    ELSE Enter(c, "news", raw, FALSE, DaysNum(raw, CONFIG).n)

\* GET /api/news/refresh
NewsRefresh(c) == Enter(c, "refresh", NoDaysParam, TRUE, CONFIG.days)

\* the object built by fetchAllData once Promise.all has resolved
backend_BuildData(res_, d, now) ==
    LET filteredItems == FilterItems(Sort(Flat(res_)), CutoffDate(now, d)) IN
    [updateTime |-> FormatSeconds(now),
     total |-> Len(filteredItems),
     allItems |-> filteredItems]

\* mutant: a run without items leaves the cache as it was
UpdateCache_onlyWithItems(cache, built, now) ==
    IF built.total > 0 THEN [data |-> Def(built), lastUpdate |-> Def(now)] ELSE cache

\* mutant: the data of this run with the newest timestamp seen so far
UpdateCache_newestTimestamp(cache, built, now) ==
    [data |-> Def(built),
     lastUpdate |-> IF cache.lastUpdate.defined /\ cache.lastUpdate.value > now
                    THEN cache.lastUpdate ELSE Def(now)]

\* mutant: the data of this run under the timestamp the slot already has
UpdateCache_keepsTimestamp(cache, built, now) ==
    [data |-> Def(built),
     lastUpdate |-> IF cache.lastUpdate.defined THEN cache.lastUpdate ELSE Def(now)]

\* NEWS_CACHE.data = data; NEWS_CACHE.lastUpdate = now
UpdateCache(cache, built, now) == [data |-> Def(built), lastUpdate |-> Def(now)]

\* Promise.all resolves: build the data, update the cache, return the data
Resolve(c, rs) ==
    /\ call[c].pc = "await170"
    /\ LET res_ == [i \in Sources |-> backend_fetchContent(CONFIG.sources[i], rs[i])]
           built == backend_BuildData(res_, call[c].days, clock)
       IN /\ NEWS_CACHE' = UpdateCache(NEWS_CACHE, built, call[c].now)
          /\ call' = [call EXCEPT ![c].pc = "ret191", ![c].now = 0,
                                   ![c].responses = rs, ![c].ret = Def(built)]
    /\ UNCHANGED <<clientVars, configFile, extraction, server, clock, CONFIG, aggVars>>

\* an exception inside the try block (a source promise rejects: fetchContent
\* destructures and logs outside its own try): the cached data or the error
\* mutant: the catch block rethrows without looking at the cache
OnFailure_alwaysThrows(cache) == [pc |-> "throw198", ret |-> Null]

\* the catch block of fetchAllData: the cached data when there is one
OnFailure(cache) ==
    IF cache.data.defined THEN [pc |-> "ret196", ret |-> cache.data]
    ELSE [pc |-> "throw198", ret |-> Null]

Reject(c) ==
    /\ call[c].pc = "await170"
    /\ LET out == OnFailure(NEWS_CACHE) IN
        call' = [call EXCEPT ![c].pc = out.pc, ![c].now = 0, ![c].ret = out.ret]
    /\ UNCHANGED <<clientVars, configFile, extraction, server, clock, CONFIG, aggVars, NEWS_CACHE>>

\* the category parameter of a query string; "" when absent
Categories == {"", "all", Titles[1], "other"}

\* mutant: the items are filtered and the total of the whole result is kept
FilterCategory_staleTotal(d, category) ==
    LET items == IF category # "" /\ category # "all"
                 THEN SelectSeq(d.allItems, LAMBDA item : item.source = category)
                 ELSE d.allItems
    IN [d EXCEPT !.allItems = items]

\* lines 240-251 of GET /api/news: the category filter and the new total
FilterCategory(d, category) ==
    LET items == IF category # "" /\ category # "all"
                 THEN SelectSeq(d.allItems, LAMBDA item : item.source = category)
                 ELSE d.allItems
    IN [d EXCEPT !.allItems = items, !.total = Len(items)]

\* mutant: the category filter assigns to the object fetchAllData returned
AfterReply_filtersInPlace(cache, ret, sent, category) ==
    IF cache.data = ret THEN [cache EXCEPT !.data = Def(sent)] ELSE cache

\* what the route's assignments do to the slot: with a category filter data
\* is a new object ({...data, allItems}); without one data.total is assigned
\* on the object fetchAllData returned, the cached one while the slot holds it
AfterReply(cache, ret, sent, category) ==
    IF category \in {"", "all"} /\ cache.data = ret
    THEN [cache EXCEPT !.data = Def(sent)] ELSE cache

\* the route continues after fetchAllData: status 500 when it threw, else
\* the data (filtered by category on GET /api/news) is saved and sent.
\* The category is read here, where it is first used. Without a filter
\* data.total is assigned on the object fetchAllData returned.
Finish(c, category) ==
    /\ call[c].pc \in {"ret165", "ret191", "ret196", "throw198"}
    /\ call[c].route # "news" => category = ""
    /\ IF call[c].pc = "throw198"
       THEN /\ call' = [call EXCEPT ![c] =
                    [IdleCall EXCEPT !.route = call[c].route, !.category = category,
                                     !.res = [status |-> 500, body |-> Null]]]
            /\ UNCHANGED NEWS_CACHE
       ELSE LET sent == FilterCategory(call[c].ret.value, category) IN
            /\ call' = [call EXCEPT ![c] =
                    [IdleCall EXCEPT !.route = call[c].route, !.category = category,
                                     !.ret = call[c].ret,
                                     !.usedCache = (call[c].pc = "ret165"),
                                     !.res = [status |-> 200, body |-> Def(sent)]]]
            /\ NEWS_CACHE' = AfterReply(NEWS_CACHE, call[c].ret, sent, category)
    /\ UNCHANGED <<clientVars, configFile, extraction, server, clock, CONFIG, aggVars>>

InitBackend ==
    /\ server = "src/backend/server.js"
    /\ clock = StartClock
    /\ configFile \in backend_ConfigFiles
    /\ CONFIG = backend_loadConfig(configFile)
    /\ extraction = NoExtraction
    /\ NoClient
    /\ InitAgg
    /\ InitCache

NextBackend ==
    \/ Tick
    \/ \E c \in Requests, raw \in DaysParams : News(c, raw)
    \/ \E c \in Requests : NewsRefresh(c)
    \/ \E c \in Requests, rs \in [Sources -> BackendResponses] : Resolve(c, rs)
    \/ \E c \in Requests : Reject(c)
    \/ \E c \in Requests, category \in Categories : Finish(c, category)

SpecCache == InitBackend /\ [][NextBackend]_vars

Next ==
    \/ Tick
    \/ Refresh
    \/ \E i \in Sources, r \in Responses : Settle(i, r)
    \/ Join
    \/ Respond

Spec == Init /\ [][Next]_vars

\* src/server.js with sources that fail or deliver a page of one element
NextLive ==
    \/ Tick
    \/ Refresh
    \/ \E i \in Sources, r \in BackendResponses : Settle(i, r)
    \/ Join
    \/ Respond

\* every GET settles (axios gives up after its timeout) and the event loop
\* runs the continuation of a resolved Promise.all
SpecLive ==
    /\ Init /\ [][NextLive]_vars
    /\ WF_vars(\E i \in Sources, r \in BackendResponses : Settle(i, r))
    /\ WF_vars(Join)

\* fetchContent(source) of the running server, called once with a
\* configured source whose GET delivers r
ExtractPage(i, r) ==
    /\ extraction = NoExtraction
    /\ extraction' =
        [source |-> CONFIG.sources[i], page |-> r,
         outcome |-> IF server = "src/server.js"
                     THEN fetchContent(CONFIG.sources[i], r)
                     ELSE Return(backend_fetchContent(CONFIG.sources[i], r))]
    /\ UNCHANGED <<clientVars, configFile, server, clock, CONFIG, aggVars, cacheVars>>

NextExtract == \E i \in Sources, r \in AnyResponses : ExtractPage(i, r)

\* the backend with two requests in flight, without query parameters, every
\* source of a run answering alike
InitRace ==
    /\ server = "src/backend/server.js"
    /\ clock = StartClock
    /\ configFile = AGoodFile
    /\ CONFIG = backend_loadConfig(configFile)
    /\ extraction = NoExtraction
    /\ NoClient
    /\ InitAgg
    /\ NEWS_CACHE = [data |-> Null, lastUpdate |-> Null]
    /\ call = [c \in {"r1", "r2"} |-> IdleCall]

NextRace ==
    \/ Tick
    \/ \E c \in Requests : News(c, NoDaysParam)
    \/ \E c \in Requests : NewsRefresh(c)
    \/ \E c \in Requests, r \in BackendResponses : Resolve(c, [i \in Sources |-> r])
    \/ \E c \in Requests : Reject(c)
    \/ \E c \in Requests : Finish(c, "")

SpecRace == InitRace /\ [][NextRace]_vars

\* either server started on any of the files, then one fetchContent call
InitConfig ==
    /\ server \in {"src/server.js", "src/backend/server.js"}
    /\ clock = StartClock
    /\ configFile \in backend_ConfigFiles
    /\ CONFIG = IF server = "src/server.js" THEN loadConfig(configFile)
                ELSE backend_loadConfig(configFile)
    /\ extraction = NoExtraction
    /\ NoClient
    /\ InitAgg
    /\ InitCache

SpecConfig == InitConfig /\ [][NextExtract]_vars

\* fetchContent on its own, of either server
SpecExtract == (Init \/ InitBackend) /\ [][NextExtract]_vars

\* ------------------------------------------ src/public/main.js, fetchWithTimeout
\* the server side of a specification about the page alone
NoServer ==
    /\ server = "none"
    /\ clock = StartClock
    /\ configFile = AGoodFile
    /\ CONFIG = DefaultConfig
    /\ extraction = NoExtraction
    /\ InitAgg
    /\ InitCache

\* what a failed attempt throws: a status that is not ok, or a fetch that
\* rejects (network failure, abort after the timeout)
FetchFailures == {"HTTP error!", "Failed to fetch"}

RECURSIVE Pow2(_)
Pow2(n) == IF n = 0 THEN 1 ELSE 2 * Pow2(n - 1)
Min(a, b) == IF a < b THEN a ELSE b

\* mutant: the waiting time doubles without a limit
WaitTime_uncapped(i) == BackoffBase * Pow2(i)

\* Math.min(1000 * Math.pow(2, i), 5000)
WaitTime(i) == Min(BackoffBase * Pow2(i), BackoffCap)

\* fetchWithTimeout(url, options, retries) up to its first await: the first
\* attempt is under way; with no attempt to make, lastError is thrown unset
StartFetch(caller, retries) ==
    [IdleFetcher EXCEPT !.pc = IF retries > 0 THEN "fetch" ELSE "thrown",
                        !.caller = caller, !.retries = retries]

\* the attempt answers with an ok status: return response
AttemptSucceeds(body) ==
    /\ fetcher.pc = "fetch"
    /\ fetcher' = [fetcher EXCEPT !.pc = "returned", !.response = Def(body),
                                  !.log = Append(@, "ok")]
    /\ UNCHANGED <<app, localStorage, configFile, extraction, server, clock, CONFIG,
                   aggVars, cacheVars>>

\* the attempt fails: the catch block keeps the error and, unless this was
\* the last attempt, sets the timer; after the last attempt the loop ends
\* and lastError is thrown
AttemptFails(e) ==
    /\ fetcher.pc = "fetch"
    /\ fetcher' =
        IF fetcher.i < fetcher.retries - 1
        THEN [fetcher EXCEPT !.pc = "wait", !.lastError = Def(e),
                             !.log = Append(@, e),
                             !.waits = Append(@, WaitTime(fetcher.i))]
        ELSE [fetcher EXCEPT !.pc = "thrown", !.lastError = Def(e),
                             !.log = Append(@, e), !.i = @ + 1]
    /\ UNCHANGED <<app, localStorage, configFile, extraction, server, clock, CONFIG,
                   aggVars, cacheVars>>

\* the timer fires: i++ and the next attempt
WaitElapses ==
    /\ fetcher.pc = "wait"
    /\ fetcher' = [fetcher EXCEPT !.pc = "fetch", !.i = @ + 1]
    /\ UNCHANGED <<app, localStorage, configFile, extraction, server, clock, CONFIG,
                   aggVars, cacheVars>>

\* one call of fetchWithTimeout with any number of retries
CallFetchWithTimeout(retries) ==
    /\ fetcher = IdleFetcher
    /\ fetcher' = StartFetch("direct", retries)
    /\ UNCHANGED <<app, localStorage, configFile, extraction, server, clock, CONFIG,
                   aggVars, cacheVars>>

InitRetry ==
    /\ NoServer
    /\ NoClient

NextRetry ==
    \/ \E retries \in 0..MaxRetries : CallFetchWithTimeout(retries)
    \/ AttemptSucceeds("body")
    \/ \E e \in FetchFailures : AttemptFails(e)
    \/ WaitElapses

\* every attempt settles (it is aborted after the timeout) and every timer
\* fires
SpecRetry ==
    /\ InitRetry /\ [][NextRetry]_vars
    /\ WF_vars(AttemptSucceeds("body") \/ \E e \in FetchFailures : AttemptFails(e))
    /\ WF_vars(WaitElapses)

\* ------------------------------------------------ src/public/main.js, NewsApp
\* a list /api/news/refresh can answer with: a items of the first source
\* dated today, then b items of the second dated yesterday
NewsList(a, b) ==
    [k \in 1..(a + b) |->
        IF k <= a
        THEN [source |-> Titles[1], title |-> k, url |-> k, date |-> Format(ValueOf(StartDay))]
        ELSE [source |-> Titles[2], title |-> k, url |-> k,
              date |-> Format(ValueOf(StartDay - 1))]]
\* one item; the list that fills the pages but the last and puts one item
\* on the last; the list that puts two there
NewsLists ==
    {NewsList(a, 1) :
        a \in {0, ItemsPerPage * (MaxClientPages - 1),
                  ItemsPerPage * (MaxClientPages - 1) + 1}}

\* the errors and partialSuccess fields a body can carry
Annotations ==
    {[errors |-> Undefined, partialSuccess |-> Def(FALSE)],
     [errors |-> Def(<<[source |-> Titles[2]]>>), partialSuccess |-> Def(TRUE)],
     [errors |-> Def(<<[source |-> Titles[2]]>>), partialSuccess |-> Def(FALSE)],
     [errors |-> Def(<<[source |-> Titles[2]]>>), partialSuccess |-> Undefined]}

\* the JSON bodies of /api/news/refresh at the instant now
RefreshBodies(now) ==
    {[updateTime |-> FormatSeconds(now), total |-> Len(items), allItems |-> items,
      errors |-> an.errors, partialSuccess |-> an.partialSuccess] :
        items \in NewsLists, an \in Annotations}

\* the bodies an ok response can carry to the caller of fetchWithTimeout
Bodies(caller, now) ==
    IF caller = "refresh" THEN RefreshBodies(now) ELSE {"categories"}

\* the values of the two selects
ClientCategories == {"all", Titles[1]}
ClientDays == {1, MaxQueryDays}

\* localStorage.setItem(key, JSON.stringify(v)) and JSON.parse(getItem(key))
Stringify(v) == [json |-> v]
Parse(text) == text.json
\* Date.now().toString() and parseInt(lastUpdate)
NumberToString(n) == [digits |-> n]
ParseDigits(text) == text.digits

\* what localStorage holds when the page is opened: nothing, or the data
\* and the time of a refresh made when the clock started
StoredBefore ==
    [allNewsData |-> Def(Stringify(
        [updateTime |-> FormatSeconds(StartClock), total |-> ItemsPerPage + 2,
         allItems |-> NewsList(ItemsPerPage + 1, 1),
         errors |-> Undefined, partialSuccess |-> Def(FALSE)])),
     lastUpdate |-> Def(NumberToString(StartClock))]

ExpiryMs == 30 * 60 * 1000
\* the instants of the page: opening, the last instant that is not expired
\* for data stored at opening, and the first that is
ClientInstants == {StartClock, StartClock + ExpiryMs, StartClock + ExpiryMs + 1}

\* isDataExpired()
isDataExpired(storage, now) ==
    IF ~storage.lastUpdate.defined THEN TRUE
    ELSE now - ParseDigits(storage.lastUpdate.value) > ExpiryMs

\* new Date(item.date) >= cutoffDate, with cutoffDate = now - days days:
\* midnight of the item's day against an instant, compared in days
IsSinceCutoff(item, d, now) ==
    item.date + d >= (now + MsPerDay - 1) \div MsPerDay

\* the two filters of filterAndDisplayNews
FilterNews(items, category, d, now) ==
    LET recent == SelectSeq(items, LAMBDA item : IsSinceCutoff(item, d, now)) IN
    IF category # "all" THEN SelectSeq(recent, LAMBDA item : item.source = category)
    ELSE recent

\* Math.ceil(n / itemsPerPage)
CeilDiv(n, d) == (n + d - 1) \div d

\* updatePagination()
updatePagination(a) ==
    [a EXCEPT !.prevDisabled = (a.currentPage = 1),
              !.nextDisabled = (a.currentPage = a.totalPages)]

\* Array.prototype.slice(start, end)
Slice(items, start, end) ==
    IF start >= Len(items) THEN <<>>
    ELSE SubSeq(items, start + 1, Min(end, Len(items)))

\* renderCurrentPage()
renderCurrentPage(a) ==
    LET start == (a.currentPage - 1) * ItemsPerPage IN
    updatePagination(
        [a EXCEPT !.list = [kind |-> "items",
                            items |-> Slice(a.allNews, start, start + ItemsPerPage)]])

EmptyStateList == [kind |-> "empty", items |-> <<>>]
ClearedList == [kind |-> "cleared", items |-> <<>>]

\* mutant: the current page is kept when the list gets shorter
filterAndDisplayNews_keepsPage(a, now) ==
    IF ~a.allNewsData.defined THEN [a EXCEPT !.list = EmptyStateList]
    ELSE LET filteredNews ==
                FilterNews(a.allNewsData.value.allItems, a.category, a.days, now)
         IN IF Len(filteredNews) = 0
            THEN updatePagination([a EXCEPT !.list = EmptyStateList,
                                            !.currentPage = 1, !.totalPages = 1])
            ELSE renderCurrentPage(
                    [a EXCEPT !.allNews = filteredNews,
                              !.totalPages = CeilDiv(Len(filteredNews), ItemsPerPage)])

\* filterAndDisplayNews()
filterAndDisplayNews(a, now) ==
    IF ~a.allNewsData.defined THEN [a EXCEPT !.list = EmptyStateList]
    ELSE LET filteredNews ==
                FilterNews(a.allNewsData.value.allItems, a.category, a.days, now)
             pages == CeilDiv(Len(filteredNews), ItemsPerPage)
         IN IF Len(filteredNews) = 0
            THEN updatePagination([a EXCEPT !.list = EmptyStateList,
                                            !.currentPage = 1, !.totalPages = 1])
            ELSE renderCurrentPage(
                    [a EXCEPT !.allNews = filteredNews,
                              !.totalPages = pages,
                              !.currentPage = IF @ > pages THEN 1 ELSE @])

\* changePage(delta)
changePage(a, delta) == renderCurrentPage([a EXCEPT !.currentPage = @ + delta])

\* showLoading(), hideLoading(), showError(message)
showLoading(a) == [a EXCEPT !.loading = TRUE, !.error = "", !.list = ClearedList]
hideLoading(a) == [a EXCEPT !.loading = FALSE]
showError(a, message) == hideLoading([a EXCEPT !.error = message])

\* the disabled attributes of the two page buttons in the document, before
\* updatePagination has run
InitialButtons == [prevDisabled |-> TRUE, nextDisabled |-> TRUE]

\* the page after the constructor, with initializeApp awaiting loadCategories
InitClient ==
    /\ NoServer
    /\ localStorage \in {EmptyStorage, StoredBefore}
    /\ app = [pc |-> "loadingCategories",
              allNewsData |-> IF localStorage.allNewsData.defined
                              THEN Def(Parse(localStorage.allNewsData.value)) ELSE Null,
              category |-> "all", days |-> MaxQueryDays,
              currentPage |-> 1, totalPages |-> 1, allNews |-> <<>>,
              prevDisabled |-> InitialButtons.prevDisabled,
              nextDisabled |-> InitialButtons.nextDisabled,
              list |-> ClearedList, loading |-> FALSE, error |-> "", toast |-> "",
              updateTime |-> 0]
    /\ fetcher = StartFetch("categories", RefreshRetries)

\* time passes in the browser
ClientTick ==
    /\ \E t \in ClientInstants : t > clock /\ clock' = t
    /\ UNCHANGED <<clientVars, configFile, extraction, server, CONFIG, aggVars, cacheVars>>

\* refresh() up to its await: showLoading and fetchWithTimeout
StartRefresh ==
    /\ app' = [showLoading(app) EXCEPT !.pc = "refreshing"]
    /\ fetcher' = StartFetch("refresh", RefreshRetries)

\* initializeApp after loadCategories returned: refresh, or show the data
\* of localStorage
CategoriesLoaded ==
    /\ app.pc = "loadingCategories"
    /\ fetcher.pc = "returned"
    /\ IF ~app.allNewsData.defined \/ isDataExpired(localStorage, clock)
       THEN StartRefresh
       ELSE /\ app' = filterAndDisplayNews(
                        [app EXCEPT !.pc = "idle",
                                    !.updateTime = app.allNewsData.value.updateTime], clock)
            /\ fetcher' = IdleFetcher
    /\ UNCHANGED <<localStorage, configFile, extraction, server, clock, CONFIG,
                   aggVars, cacheVars>>

\* loadCategories threw: its catch and the catch of initializeApp
CategoriesFailed ==
    /\ app.pc = "loadingCategories"
    /\ fetcher.pc = "thrown"
    /\ app' = [showError(showError(app, "categories"), "initialize") EXCEPT !.pc = "idle"]
    /\ fetcher' = IdleFetcher
    /\ UNCHANGED <<localStorage, configFile, extraction, server, clock, CONFIG,
                   aggVars, cacheVars>>

\* a click on the refresh button or on the retry button, no refresh running
ClickRefresh ==
    /\ app.pc = "idle"
    /\ StartRefresh
    /\ UNCHANGED <<localStorage, configFile, extraction, server, clock, CONFIG,
                   aggVars, cacheVars>>

\* data.errors && data.errors.length > 0
HasErrors(d) == d.errors.defined /\ Len(d.errors.value) > 0
\* data.partialSuccess is truthy
IsPartial(d) == d.partialSuccess = Def(TRUE)

\* mutant: the data of a total failure is stored like any other
StoresResponse_always(d) == TRUE

\* refresh() goes on to store the data unless it has errors without
\* partialSuccess
StoresResponse(d) == ~(HasErrors(d) /\ ~IsPartial(d))

\* refresh() after fetchWithTimeout returned and the body is parsed
RefreshReturned ==
    /\ app.pc = "refreshing"
    /\ fetcher.pc = "returned"
    /\ LET d == fetcher.response.value
           noticed == IF HasErrors(d)
                      THEN [app EXCEPT !.toast = IF IsPartial(d) THEN "partial" ELSE "total"]
                      ELSE app
       IN IF ~StoresResponse(d)
          THEN /\ app' = [showError(noticed, "total") EXCEPT !.pc = "idle"]
               /\ UNCHANGED localStorage
          ELSE /\ app' = hideLoading(filterAndDisplayNews(
                            [noticed EXCEPT !.pc = "idle", !.allNewsData = Def(d),
                                            !.updateTime = d.updateTime], clock))
               /\ localStorage' = [allNewsData |-> Def(Stringify(d)),
                                   lastUpdate |-> Def(NumberToString(clock))]
    /\ fetcher' = IdleFetcher
    /\ UNCHANGED <<configFile, extraction, server, clock, CONFIG, aggVars, cacheVars>>

\* refresh() when fetchWithTimeout threw: the error and the retry button
RefreshThrew ==
    /\ app.pc = "refreshing"
    /\ fetcher.pc = "thrown"
    /\ app' = [hideLoading(showError(app, "refresh")) EXCEPT !.pc = "idle"]
    /\ fetcher' = IdleFetcher
    /\ UNCHANGED <<localStorage, configFile, extraction, server, clock, CONFIG,
                   aggVars, cacheVars>>

\* the change event of the category select (the select's own lastCategory
\* key and the URL are outside the model)
ChangeCategory(category) ==
    /\ app.pc # "closed"
    /\ category # app.category
    /\ app' = filterAndDisplayNews([app EXCEPT !.category = category], clock)
    /\ UNCHANGED <<localStorage, fetcher, configFile, extraction, server, clock, CONFIG,
                   aggVars, cacheVars>>

\* the change event of the days select (likewise without lastDays)
ChangeDays(d) ==
    /\ app.pc # "closed"
    /\ d # app.days
    /\ app' = filterAndDisplayNews([app EXCEPT !.days = d], clock)
    /\ UNCHANGED <<localStorage, fetcher, configFile, extraction, server, clock, CONFIG,
                   aggVars, cacheVars>>

\* a click on a page button; a disabled button gets no click
ClickPrev ==
    /\ app.pc # "closed"
    /\ ~app.prevDisabled
    /\ app' = changePage(app, -1)
    /\ UNCHANGED <<localStorage, fetcher, configFile, extraction, server, clock, CONFIG,
                   aggVars, cacheVars>>

ClickNext ==
    /\ app.pc # "closed"
    /\ ~app.nextDisabled
    /\ app' = changePage(app, 1)
    /\ UNCHANGED <<localStorage, fetcher, configFile, extraction, server, clock, CONFIG,
                   aggVars, cacheVars>>

NextClient ==
    \/ ClientTick
    \/ \E body \in Bodies(fetcher.caller, clock) : AttemptSucceeds(body)
    \/ AttemptFails("Failed to fetch")
    \/ WaitElapses
    \/ CategoriesLoaded
    \/ CategoriesFailed
    \/ ClickRefresh
    \/ RefreshReturned
    \/ RefreshThrew
    \/ \E category \in ClientCategories : ChangeCategory(category)
    \/ \E d \in ClientDays : ChangeDays(d)
    \/ ClickPrev
    \/ ClickNext

\* the page alone, against any server
SpecClient == InitClient /\ [][NextClient]_vars

\* either server
SpecBoth == (Init \/ InitBackend) /\ [][Next \/ NextBackend]_vars

\* ================================================================ properties
SeqToSet(s) == {s[k] : k \in DOMAIN s}
ItemsOf(items, title) == SelectSeq(items, LAMBDA item : item.source = title)
\* items are distinct, so two lists hold the same items when their sets and
\* lengths agree
SameItems(a, b) == Len(a) = Len(b) /\ SeqToSet(a) = SeqToSet(b)
\* the items of the page a source delivered, none when it delivered no page
Delivered(i, r) == IF r.net = "ok" THEN Extract(CONFIG.sources[i], r.doc) ELSE <<>>
\* the sources whose extraction failed in the run of src/server.js
FailedSources == {i \in Sources : fetchContent(CONFIG.sources[i], response[i]).threw}
\* the calendar day on which a result was built
BuiltOn(result) == (result.updateTime * MsPerSecond) \div MsPerDay
InWindow(item, result, d) == item.date > BuiltOn(result) - d
Returned(c) == call[c].pc = "ret191"

\* C1: a failing source never aborts the run and never removes the items of
\* the others: the merged list holds, for every source, exactly the items of
\* the page it delivered, and nothing for a source that failed.
C1_FailureIsolated ==
    /\ pc # "failed"
    /\ pc = "done" =>
        /\ \A i \in Sources :
            SameItems(ItemsOf(allItems, CONFIG.sources[i]), Delivered(i, response[i]))
        /\ \A k \in DOMAIN allItems : allItems[k].source \in SeqToSet(CONFIG.sources)
    /\ \A c \in Requests : Returned(c) =>
        \A i \in Sources :
            SeqToSet(ItemsOf(call[c].ret.value.allItems, CONFIG.sources[i])) =
                {item \in SeqToSet(Delivered(i, call[c].responses[i])) :
                    InWindow(item, call[c].ret.value, call[c].days)}

C1_Witness ==
    /\ pc = "done"
    /\ \E i, j \in Sources :
        /\ i \in FailedSources
        /\ j \notin FailedSources
        /\ Len(ItemsOf(allItems, CONFIG.sources[j])) = MaxElems

\* C2: errors is absent when no source failed in the run, and present and
\* non-empty when at least one did.
C2_ErrorsAbsentIffNoFailure ==
    pc = "done" =>
        /\ FailedSources = {} => data.errors = Undefined
        /\ FailedSources # {} => (data.errors.defined /\ Len(data.errors.value) > 0)

C2_Witness ==
    /\ pc = "done"
    /\ Sources # {}
    /\ FailedSources = {}
    /\ data.total > 0
    /\ data.errors = Undefined

\* C3 as stated: partialSuccess is true iff errors present and total > 0,
\* false iff errors present and total = 0, undefined when no source failed.
C3_Original ==
    pc = "done" =>
        /\ data.partialSuccess = Def(TRUE) <=> (data.errors.defined /\ data.total > 0)
        /\ data.partialSuccess = Def(FALSE) <=> (data.errors.defined /\ data.total = 0)
        /\ data.partialSuccess = Undefined <=> ~data.errors.defined

\* C3 amended: partialSuccess is always a boolean; it is true iff errors is
\* present and total > 0, and false otherwise, also when no source failed.
C3_PartialSuccess ==
    pc = "done" =>
        data.partialSuccess = Def(data.errors.defined /\ data.total > 0)

C3_Witness ==
    /\ pc = "done"
    /\ ~data.errors.defined
    /\ data.total > 0
    /\ data.partialSuccess = Def(FALSE)

Sorted(items) ==
    \A i, j \in DOMAIN items : i < j => items[i].date >= items[j].date

\* C4: allItems of every result, returned or cached, is sorted non-increasing
\* by date.
C4_SortedByDate ==
    /\ pc = "done" => Sorted(data.allItems)
    /\ NEWS_CACHE.data.defined => Sorted(NEWS_CACHE.data.value.allItems)
    /\ \A c \in Requests : call[c].ret.defined => Sorted(call[c].ret.value.allItems)

C4_Witness ==
    /\ pc = "done"
    /\ \E i \in Sources :
        /\ Len(results[i]) = 2
        /\ results[i][1].date < results[i][2].date
        /\ results[i][2] = data.allItems[1]
        /\ results[i][1] \in SeqToSet(data.allItems)

\* C5: an item is in allItems exactly when its date is strictly after
\* start-of-day(now) - days: the item dated days before today is excluded,
\* the item dated days - 1 before today is kept.
C5_DaysWindow ==
    /\ pc = "done" =>
        \A k \in DOMAIN allItems :
            allItems[k] \in SeqToSet(data.allItems) <=> InWindow(allItems[k], data, days)
    /\ pc = "done" => SeqToSet(data.allItems) \subseteq SeqToSet(allItems)
    /\ \A c \in Requests : Returned(c) =>
        \A i \in Sources : \A item \in SeqToSet(Delivered(i, call[c].responses[i])) :
            item \in SeqToSet(call[c].ret.value.allItems)
                <=> InWindow(item, call[c].ret.value, call[c].days)

C5_Witness ==
    /\ pc = "done"
    /\ \E k \in DOMAIN allItems :
        /\ allItems[k].date = BuiltOn(data) - days
        /\ allItems[k] \notin SeqToSet(data.allItems)
    /\ \E k \in DOMAIN data.allItems : data.allItems[k].date = BuiltOn(data) - days + 1

SourceIndex(title) == CHOOSE i \in Sources : CONFIG.sources[i] = title
\* concatenation order: Registry order, then document order
Precedes(a, b) ==
    \/ SourceIndex(a.source) < SourceIndex(b.source)
    \/ a.source = b.source /\ a.title < b.title
TiesInOrder(items) ==
    \A i, j \in DOMAIN items :
        (i < j /\ items[i].date = items[j].date) => Precedes(items[i], items[j])

\* C6: items with equal dates appear in concatenation order (Registry order,
\* then document order), whatever the order in which the sources settled.
C6_TiesKeepConcatenationOrder ==
    /\ pc = "done" => TiesInOrder(data.allItems)
    /\ \A c \in Requests : call[c].ret.defined => TiesInOrder(call[c].ret.value.allItems)

C6_Witness ==
    /\ pc = "done"
    /\ \E i, j \in DOMAIN data.allItems :
        /\ i < j
        /\ data.allItems[i].date = data.allItems[j].date
        /\ data.allItems[i].source # data.allItems[j].source
    /\ \E i, j \in DOMAIN data.allItems :
        /\ i < j
        /\ data.allItems[i].date = data.allItems[j].date
        /\ data.allItems[i].source = data.allItems[j].source

\* the TTL of the cache, in milliseconds
TTL == CONFIG.intervalMinutes * 60 * 1000
Entered(c) == call[c].pc = "idle" /\ call'[c].pc # "idle"

C8_ForcedRefreshFetches ==
    [][\A c \in Requests :
        /\ (Entered(c) /\ call'[c].forceRefresh) => call'[c].pc = "await170"
        /\ call'[c].forceRefresh => call'[c].pc # "ret165"
        /\ (call[c].pc = "await170" /\ call[c].forceRefresh /\ call'[c].pc = "ret191")
            => (/\ call'[c].ret.defined
                /\ call'[c].ret.value.updateTime = FormatSeconds(clock)
                /\ call'[c].ret = NEWS_CACHE'.data)]_vars

C8_Witness ==
    \E c \in Requests :
        /\ call[c].pc = "await170"
        /\ call[c].forceRefresh
        /\ NEWS_CACHE.data.defined
        /\ call[c].now - NEWS_CACHE.lastUpdate.value < TTL

\* C9: when the fetch returns a result, the result and the timestamp of the
\* call replace the cache slot, also when sources failed, and the value
\* returned is the value stored.
C9_RefreshReplacesCache ==
    [][\A c \in Requests :
        (call[c].pc = "await170" /\ call'[c].pc = "ret191")
        => (/\ call'[c].ret.defined
            /\ NEWS_CACHE'.data = call'[c].ret
            /\ NEWS_CACHE'.lastUpdate = Def(call[c].now))]_vars

\* every source failed, and the empty result is what the cache now holds
C9_Witness ==
    \E c \in Requests :
        /\ Returned(c)
        /\ Sources # {}
        /\ \A i \in Sources : call[c].responses[i] = NetError
        /\ call[c].ret.value.total = 0
        /\ NEWS_CACHE.data = call[c].ret

\* C10: when the fetch fails hard, a previous entry is returned and the cache
\* is left as it was; the failure is propagated only when there is no entry.
C10_HardFailureFallsBack ==
    [][\A c \in Requests :
        (call[c].pc = "await170" /\ call'[c].pc \in {"ret196", "throw198"})
        => (/\ NEWS_CACHE' = NEWS_CACHE
            /\ NEWS_CACHE.data.defined =>
                (call'[c].pc = "ret196" /\ call'[c].ret = NEWS_CACHE.data)
            /\ ~NEWS_CACHE.data.defined => call'[c].pc = "throw198")]_vars

C10_Witness ==
    \E c \in Requests :
        /\ call[c].pc = "ret196"
        /\ call[c].ret.defined
        /\ call[c].ret = NEWS_CACHE.data

\* ---------------------------------------------------------------- C11
\* the route of src/server.js answers, and every source of the run failed
AnswersTotalFailure ==
    /\ pc \in {"done", "failed"} /\ pc' = "idle"
    /\ Sources # {}
    /\ FailedSources = Sources
\* fetchAllData of the backend returns a result and no source answered
ReturnsTotalFailure(c) ==
    /\ call[c].pc = "await170" /\ call'[c].pc = "ret191"
    /\ Sources # {}
    /\ \A i \in Sources : call'[c].responses[i] = NetError

\* C11 as stated: when every source fails and the cache holds no entry, the
\* request ends with a status 5xx and not with a result.
C11_Original ==
    [][/\ AnswersTotalFailure => res'.status >= 500
       /\ \A c \in Requests :
            ~(ReturnsTotalFailure(c) /\ ~NEWS_CACHE.data.defined)]_vars

\* C11 as the code has it: when every source fails, src/server.js answers
\* status 200 with a result of no items, one error per source and
\* partialSuccess false; the backend returns and stores a result of no
\* items, and its route answers status 200. The backend answers status 500
\* when fetchAllData threw.
C11_TotalFailureAnswered ==
    [][/\ AnswersTotalFailure =>
            /\ res'.status = 200
            /\ res'.body.total = 0 /\ res'.body.allItems = <<>>
            /\ res'.body.errors.defined
            /\ Len(res'.body.errors.value) = Len(CONFIG.sources)
            /\ res'.body.partialSuccess = Def(FALSE)
       /\ \A c \in Requests :
            /\ ReturnsTotalFailure(c) =>
                    (call'[c].ret.value.total = 0 /\ NEWS_CACHE'.data = call'[c].ret)
            /\ (call[c].pc = "ret191" /\ call'[c].pc = "idle") =>
                    call'[c].res.status = 200
            /\ (call[c].pc = "throw198" /\ call'[c].pc = "idle") =>
                    call'[c].res.status = 500]_vars

\* a refresh of src/server.js was answered with the result of a run whose
\* sources all failed
C11_Witness ==
    /\ server = "src/server.js"
    /\ res.status = 200
    /\ Sources # {}
    /\ res.body.errors.defined
    /\ Len(res.body.errors.value) = Len(CONFIG.sources)
    /\ res.body.total = 0

\* ---------------------------------------------------------------- C12
\* the parameter is the decimal text of an integer of the accepted range
IsDaysInRange(raw) ==
    raw.present /\ raw.digits /\ ~raw.rest /\ raw.n >= 1 /\ raw.n <= MaxQueryDays

\* C12: a GET /api/news whose days parameter is supplied and is not an
\* integer of 1..90 is answered with status 400 and fetchAllData is not
\* called; with an integer of 1..90 fetchAllData(false, days) is called
\* with that number.
C12_DaysValidated ==
    \A c \in Requests :
        (call[c].route = "news" /\ call[c].query.present) =>
            IF IsDaysInRange(call[c].query)
            THEN /\ call[c].res.status # 400
                 /\ call[c].pc # "idle" =>
                        (~call[c].forceRefresh /\ call[c].days = call[c].query.n)
            ELSE call[c].pc = "idle" /\ call[c].res.status = 400

\* ---------------------------------------------------------------- C13
\* the route GET /api/news has sent the data fetchAllData returned
SentNews(c) ==
    /\ call[c].pc = "idle" /\ call[c].route = "news"
    /\ call[c].res.status = 200

\* C13: the allItems of every answer of GET /api/news are the items
\* fetchAllData returned whose source is the category (all of them when
\* the category is absent or "all"), in the same order, and total is
\* their number.
C13_CategoryFilter ==
    \A c \in Requests :
        SentNews(c) =>
            LET got == call[c].ret.value.allItems
                sent == call[c].res.body.value
            IN /\ sent.allItems =
                    IF call[c].category \in {"", "all"} THEN got
                    ELSE ItemsOf(got, call[c].category)
               /\ sent.total = Len(sent.allItems)
               /\ sent.updateTime = call[c].ret.value.updateTime

\* a category kept some items and dropped others
C13_Witness ==
    \E c \in Requests :
        /\ SentNews(c)
        /\ call[c].category = Titles[1]
        /\ call[c].res.body.value.total > 0
        /\ call[c].res.body.value.total < call[c].ret.value.total

\* ---------------------------------------------------------------- C14
\* fetchContent of src/server.js has been called and has settled
ExtractedBy(file) == server = file /\ extraction.page # NoResponse

Parsed ==
    /\ extraction.page.net = "ok"
    /\ extraction.page.status = 200

\* C15: fetchContent does not throw on a page with malformed elements, and
\* its items are the well-formed elements of the page and no others, in
\* document order.
C15_MalformedSkippedAlone ==
    Parsed =>
        LET doc == extraction.page.doc
            items == extraction.outcome.value
        IN /\ ~extraction.outcome.threw
           /\ \A k \in DOMAIN doc :
                doc[k].kind = "ok" <=> \E j \in DOMAIN items : items[j].title = k
           /\ \A j \in DOMAIN items :
                /\ items[j].title \in DOMAIN doc
                /\ items[j].source = extraction.source
                /\ items[j].date = Format(ValueOf(doc[items[j].title].day))
           /\ \A j1, j2 \in DOMAIN items : j1 < j2 => items[j1].title < items[j2].title

\* a well-formed element after an element that throws has its item
C15_Witness ==
    /\ Parsed
    /\ Len(extraction.page.doc) >= 2
    /\ extraction.page.doc[1].kind = "throws"
    /\ extraction.page.doc[2].kind = "ok"
    /\ Len(extraction.outcome.value) = 1
    /\ extraction.outcome.value[1].title = 2

\* ---------------------------------------------------------------- C16
\* the errors of a result, empty when the field is absent
ErrorsOf(d) == IF d.errors.defined THEN d.errors.value ELSE <<>>
ErrorsAbout(d, title) == SelectSeq(ErrorsOf(d), LAMBDA e : e.source = title)

\* C16: the errors of a finished run hold one entry, under the source's
\* title, for each source whose fetch failed and none for a source whose
\* fetch completed, with or without items; when every source failed the
\* total is 0, errors has an entry per source and partialSuccess is false.
C16_OneErrorPerFailedSource ==
    pc = "done" =>
        /\ \A i \in Sources :
            Len(ErrorsAbout(data, CONFIG.sources[i])) =
                IF i \in FailedSources THEN 1 ELSE 0
        /\ Len(ErrorsOf(data)) = Cardinality(FailedSources)
        /\ (Sources # {} /\ FailedSources = Sources) =>
            /\ data.total = 0
            /\ Len(ErrorsOf(data)) = Len(CONFIG.sources)
            /\ data.partialSuccess = Def(FALSE)

\* one source failed and another completed with a page of no elements
C16_Witness ==
    /\ pc = "done"
    /\ \E i, j \in Sources :
        /\ j \in FailedSources
        /\ response[i].net = "ok" /\ response[i].status = 200 /\ response[i].doc = <<>>
        /\ ErrorsAbout(data, CONFIG.sources[i]) = <<>>
        /\ Len(ErrorsAbout(data, CONFIG.sources[j])) = 1

\* ---------------------------------------------------------------- C17
\* main() found no usable configuration
BadConfigFile ==
    IF server = "src/server.js" THEN configFile \in BadFiles
    ELSE configFile \in backend_BadFiles

\* C17: with a configuration file that is unreadable, unparseable or lacks
\* a required field, loadConfig returns the default with no sources and
\* days = 3, and a run of fetchAllData returns total 0, no items and no
\* errors field.
C17_ConfigFallback ==
    BadConfigFile =>
        /\ CONFIG.sources = <<>>
        /\ CONFIG.days = DefaultDays
        /\ pc = "done" =>
            /\ data.total = 0 /\ data.allItems = <<>>
            /\ data.errors = Undefined
        /\ \A c \in Requests :
            call[c].pc = "ret191" =>
                /\ call[c].ret.value.total = 0
                /\ call[c].ret.value.allItems = <<>>
                /\ "errors" \notin DOMAIN call[c].ret.value

\* src/server.js finished a run under the default it took for a file
\* without days
C17_Witness ==
    /\ server = "src/server.js"
    /\ configFile.readable /\ configFile.parses /\ configFile.days = 0
    /\ pc = "done"
    /\ data.total = 0

\* ---------------------------------------------------------------- C18
\* C18: fetchAllData starts the task of every source before it awaits any,
\* builds its result only when every task has settled, does not end at the
\* first failure, and, every GET settling, returns.
C18_FanOutJoins ==
    /\ [][(pc = "idle" /\ pc' = "fetching") => pending' = Sources]_vars
    /\ [][(pc = "fetching" /\ pc' # "fetching") => (pending = {} /\ pc' = "done")]_vars
    /\ (pc = "fetching") ~> (pc = "done")

\* a run returned although one of its sources had failed before another
\* delivered
C18_Witness ==
    /\ pc = "done"
    /\ FailedSources # {}
    /\ FailedSources # Sources
    /\ data.total > 0

\* ---------------------------------------------------------------- C19
\* the fetchAllData call c writes the cache in this step
Writes(c) == call[c].pc = "await170" /\ call'[c].pc = "ret191"

\* C19: with refreshes in flight together, every write replaces the whole
\* cache slot by the result and the timestamp of the one call that writes,
\* and nothing else changes the slot: it holds the result of the call that
\* wrote last, never parts of two runs.
C19_LastWriterWins ==
    [][/\ \A c \in Requests :
            Writes(c) => (/\ NEWS_CACHE'.data = call'[c].ret
                          /\ NEWS_CACHE'.lastUpdate = Def(call[c].now))
       /\ NEWS_CACHE' # NEWS_CACHE => \E c \in Requests : Writes(c)]_vars

\* two refreshes that ran together have both written, with different
\* results, and the slot holds one of them under a timestamp older than
\* the other run's result
C19_Witness ==
    \E c1, c2 \in Requests :
        /\ c1 # c2
        /\ call[c1].pc = "ret191" /\ call[c2].pc = "ret191"
        /\ call[c1].ret.value.allItems # call[c2].ret.value.allItems
        /\ NEWS_CACHE.data = call[c2].ret
        /\ FormatSeconds(NEWS_CACHE.lastUpdate.value) < call[c1].ret.value.updateTime

\* ---------------------------------------------------------------- C20
\* C20: a call without forceRefresh fetches exactly when the cache is
\* empty or its entry is at least intervalMinutes * 60 * 1000 ms old; an
\* entry exactly that old is refetched.
C20_StaleAtTTL ==
    [][\A c \in Requests :
        (Entered(c) /\ ~call'[c].forceRefresh) =>
            (call'[c].pc = "await170" <=>
                (\/ ~NEWS_CACHE.data.defined
                 \/ clock - NEWS_CACHE.lastUpdate.value >= TTL))]_vars

\* a call without forceRefresh fetches over an entry exactly TTL old
C20_Witness ==
    \E c \in Requests :
        /\ call[c].pc = "await170"
        /\ ~call[c].forceRefresh
        /\ NEWS_CACHE.data.defined
        /\ call[c].now - NEWS_CACHE.lastUpdate.value = TTL

\* ---------------------------------------------------------------- C22
\* the attempts made so far that failed
Failures == SelectSeq(fetcher.log, LAMBDA o : o # "ok")
\* the waits a call has made after n failed attempts that were not the last
Backoff(n) ==
    [k \in 1..n |-> IF BackoffBase * Pow2(k - 1) < BackoffCap
                    THEN BackoffBase * Pow2(k - 1) ELSE BackoffCap]

\* C22: fetchWithTimeout makes at most retries attempts, one at a time;
\* it returns the response of the first attempt that succeeds and makes
\* no further attempt; it waits min(1000 * 2^i, 5000) ms after failed
\* attempt i unless that was the last; when every attempt failed it throws
\* the error of the last one; it terminates.
C22_RetriesAndBackoff ==
    /\ [](/\ Len(fetcher.log) <= fetcher.retries
          /\ fetcher.pc = "fetch" => fetcher.i = Len(fetcher.log)
          /\ fetcher.pc = "returned" =>
                /\ fetcher.log = Failures \o <<"ok">>
                /\ fetcher.response.defined
          /\ fetcher.pc = "thrown" =>
                /\ fetcher.log = Failures
                /\ Len(fetcher.log) = fetcher.retries
                /\ fetcher.retries > 0 =>
                        fetcher.lastError = Def(fetcher.log[fetcher.retries])
          /\ fetcher.waits =
                Backoff(IF fetcher.pc = "thrown" /\ fetcher.retries > 0
                        THEN fetcher.retries - 1 ELSE Len(Failures)))
    /\ [][fetcher.pc \in {"returned", "thrown"} => fetcher' = fetcher]_vars
    /\ (fetcher.pc = "fetch") ~> (fetcher.pc \in {"returned", "thrown"})

\* every attempt of a call with five or more retries failed; the fourth
\* wait was the capped one
C22_Witness ==
    /\ fetcher.pc = "thrown"
    /\ fetcher.retries >= 5
    /\ Len(fetcher.waits) = fetcher.retries - 1
    /\ fetcher.waits[3] = 4 * BackoffBase
    /\ fetcher.waits[4] = BackoffCap

\* ------------------------------------------------------------------- C21
\* the step in which refresh() handles the parsed body of its response
RefreshHandles ==
    app.pc = "refreshing" /\ fetcher.pc = "returned" /\ app'.pc = "idle"
\* what the page shows for the data d under the current selects
Displays(a, d, now) ==
    LET filtered == FilterNews(d.allItems, a.category, a.days, now) IN
    /\ ~a.loading
    /\ a.error = ""
    /\ IF Len(filtered) = 0 THEN a.list = EmptyStateList
       ELSE /\ a.list.kind = "items"
            /\ a.allNews = filtered
            /\ a.list.items = Slice(filtered, (a.currentPage - 1) * ItemsPerPage,
                                    a.currentPage * ItemsPerPage)

\* C21: a response of refresh() with errors and partialSuccess true
\* replaces allNewsData, the stored allNewsData and the stored lastUpdate
\* and is displayed under a toast, without the error box; a response with
\* errors whose partialSuccess is not true shows the error box and leaves
\* allNewsData and both stored values as they were, so that stored data
\* that was expired is still expired.
C21_PartialStoredTotalRejected ==
    [][RefreshHandles =>
        LET d == fetcher.response.value IN
        /\ (HasErrors(d) /\ d.partialSuccess = Def(TRUE)) =>
              /\ app'.allNewsData = Def(d)
              /\ Parse(localStorage'.allNewsData.value) = d
              /\ ParseDigits(localStorage'.lastUpdate.value) = clock
              /\ app'.toast = "partial"
              /\ Displays(app', d, clock)
        /\ (HasErrors(d) /\ d.partialSuccess # Def(TRUE)) =>
              /\ app'.error # ""
              /\ ~app'.loading
              /\ app'.allNewsData = app.allNewsData
              /\ localStorage' = localStorage
              /\ (isDataExpired(localStorage, clock)
                    => isDataExpired(localStorage', clock'))]_vars

\* a total failure was just rejected while the stored data, itself the
\* product of an earlier partial success, is expired
C21_Witness ==
    /\ app.pc = "idle"
    /\ app.error = "total"
    /\ app.toast = "total"
    /\ localStorage.allNewsData.defined
    /\ HasErrors(Parse(localStorage.allNewsData.value))
    /\ app.allNewsData = Def(Parse(localStorage.allNewsData.value))
    /\ isDataExpired(localStorage, clock)

\* ------------------------------------------------------------------- C27
\* the items the two selects let through, of the data the page holds
FilteredNow ==
    IF app.allNewsData.defined
    THEN FilterNews(app.allNewsData.value.allItems, app.category, app.days, clock)
    ELSE <<>>
Max(a, b) == IF a >= b THEN a ELSE b
PagesMatchFilter ==
    app.totalPages = Max(1, CeilDiv(Len(FilteredNow), ItemsPerPage))
\* a step in which filterAndDisplayNews ran over data: a refresh was
\* stored, the stored data was shown on opening, or a select changed
FiltersData ==
    /\ app'.allNewsData.defined
    /\ \/ app'.allNewsData # app.allNewsData
       \/ app'.category # app.category
       \/ app'.days # app.days
       \/ RefreshHandles /\ app'.error = ""
       \/ app.pc = "loadingCategories" /\ app'.pc = "idle" /\ app'.error = ""

FileConfig ==
    [days |-> configFile.days, intervalMinutes |-> configFile.intervalMinutes,
     outputPath |-> configFile.outputPath, sources |-> configFile.sources]
\* a file of the documented shape: days, intervalMinutes and a sources array
DocumentedFile ==
    /\ configFile.readable /\ configFile.parses
    /\ configFile.days # 0
    /\ configFile.intervalMinutes # 0
    /\ configFile.isArray
FellBack ==
    CONFIG = IF server = "src/server.js" THEN DefaultConfig ELSE backend_DefaultConfig

\* C23 as stated: every file of the documented shape with days,
\* intervalMinutes and a sources array is returned as it is, and the fallback
\* is taken only when one of the three is missing.
C23_Original ==
    /\ DocumentedFile => CONFIG = FileConfig
    /\ (configFile.readable /\ configFile.parses /\ FellBack) => ~DocumentedFile

\* the fields each loadConfig asks for
RequiredFields ==
    /\ configFile.days # 0
    /\ configFile.isArray
    /\ server = "src/backend/server.js" =>
          (configFile.intervalMinutes # 0 /\ configFile.outputPath # "")

\* C23 (amended): a file that is read and parsed is returned as it is, its
\* source list unchanged, exactly when it has days and a sources array
\* and, on src/backend/server.js, intervalMinutes and outputPath as well;
\* any other file gives the server's default with no sources.
C23_RequiredFieldsPerServer ==
    IF configFile.readable /\ configFile.parses /\ RequiredFields
    THEN CONFIG = FileConfig /\ CONFIG.sources = configFile.sources
    ELSE FellBack /\ CONFIG.sources = <<>>

\* the backend fell back on a file of the documented shape that has no
\* outputPath
C23_Witness ==
    /\ server = "src/backend/server.js"
    /\ DocumentedFile
    /\ configFile.outputPath = ""
    /\ CONFIG.sources = <<>>
    /\ CONFIG.outputPath = "news.json"

\* ------------------------------------------------------------------- C24
\* the slot as the run of call c leaves it: its result, under the instant
\* at which it was called
SlotOfRun(c) == [data |-> call'[c].ret, lastUpdate |-> Def(call[c].now)]

\* C24: in every state NEWS_CACHE.data and NEWS_CACHE.lastUpdate are both
\* null or both set, and every step that changes either of them is the
\* write of one run, which sets both, the data to that run's result and the
\* timestamp to that run's instant: no state pairs the data of one run with
\* the timestamp of another.
C24_DataAndTimestampOfOneRun ==
    /\ [](NEWS_CACHE.data.defined <=> NEWS_CACHE.lastUpdate.defined)
    /\ [][\/ NEWS_CACHE' = NEWS_CACHE
          \/ \E c \in Requests : Writes(c) /\ NEWS_CACHE' = SlotOfRun(c)]_vars
    /\ [][\A c \in Requests : Writes(c) => NEWS_CACHE' = SlotOfRun(c)]_vars

\* a run called later has written the slot while a run called earlier, over
\* the empty cache, is still awaiting its sources
C24_Witness ==
    \E c1, c2 \in Requests :
        /\ c1 # c2
        /\ call[c1].pc = "await170"
        /\ call[c2].pc = "ret191"
        /\ NEWS_CACHE.data = call[c2].ret
        /\ NEWS_CACHE.lastUpdate.defined
        /\ NEWS_CACHE.lastUpdate.value > call[c1].now

\* ------------------------------------------------------------------- C25
\* C25: the cache timestamp never moves backwards: every write of
\* NEWS_CACHE.lastUpdate stores a value greater than or equal to the one it
\* replaces.
C25_TimestampMonotonic ==
    [][(NEWS_CACHE.lastUpdate.defined /\ NEWS_CACHE'.lastUpdate.defined)
        => NEWS_CACHE'.lastUpdate.value >= NEWS_CACHE.lastUpdate.value]_vars

\* ------------------------------------------------------------------- C26
\* the reply of a request that fetchAllData served from the cache
RepliesFromCache(c) == call[c].pc = "ret165" /\ call'[c].pc = "idle"

\* C26: the slot changes only in the write of a fetchAllData run; the reply
\* to a request served from the cache, whatever its category, leaves the
\* cached allItems, total, updateTime and the timestamp as they were, and a
\* request for all categories served from the cache is sent the cached
\* list whole.
C26_CacheServeLeavesSlot ==
    /\ [][NEWS_CACHE' # NEWS_CACHE => \E c \in Requests : Writes(c)]_vars
    /\ [][\A c \in Requests :
            RepliesFromCache(c) =>
                /\ NEWS_CACHE'.lastUpdate = NEWS_CACHE.lastUpdate
                /\ NEWS_CACHE'.data.value.allItems = NEWS_CACHE.data.value.allItems
                /\ NEWS_CACHE'.data.value.total = NEWS_CACHE.data.value.total
                /\ NEWS_CACHE'.data.value.updateTime = NEWS_CACHE.data.value.updateTime
                /\ call'[c].category \in {"", "all"} =>
                      call'[c].res.body = NEWS_CACHE'.data]_vars
    /\ [](NEWS_CACHE.data.defined =>
            NEWS_CACHE.data.value.total = Len(NEWS_CACHE.data.value.allItems))

\* a request with a category was served from the cache and sent fewer items
\* than the slot, still within its TTL, holds
C26_Witness ==
    \E c \in Requests :
        /\ call[c].pc = "idle"
        /\ call[c].usedCache
        /\ call[c].route = "news"
        /\ call[c].category = Titles[1]
        /\ call[c].res.status = 200
        /\ call[c].res.body.value.total < NEWS_CACHE.data.value.total
        /\ Len(call[c].res.body.value.allItems) = call[c].res.body.value.total
        /\ Len(NEWS_CACHE.data.value.allItems) = NEWS_CACHE.data.value.total
        /\ call[c].res.body.value.total > 0
        /\ clock - NEWS_CACHE.lastUpdate.value < TTL

====
